---- MODULE Spec2Model ----
(***************************************************************************)
(* Session bootstrap and environment propagation of redo-rs (src/env.rs).  *)
(*                                                                         *)
(* A string is a sequence of tokens.  A token is a one-character string    *)
(* (a digit, a sign, a space, "/", ":") or a whole file name, which the    *)
(* code never looks inside.  An environment maps every variable name to a  *)
(* string or to Unset.  A 64-bit integer is its canonical decimal numeral  *)
(* (sign and digits without leading zeros); an i32 is a TLC integer.       *)
(***************************************************************************)
EXTENDS Integers, Sequences, FiniteSets, TLC

\* ------------------------------------------------------------------ bounds
\* processes of one tree
MaxProcs == 2
\* live session objects of one process
MaxSess == 2
\* variables set in the environment the root process starts with
MaxPreset == 2

\* ------------------------------------------------- names of the variables
ENV_BASE == "REDO_BASE"
ENV_COLOR == "REDO_COLOR"
ENV_DEBUG == "REDO_DEBUG"
ENV_DEBUG_LOCKS == "REDO_DEBUG_LOCKS"
ENV_DEBUG_PIDS == "REDO_DEBUG_PIDS"
ENV_DEPTH == "REDO_DEPTH"
ENV_KEEP_GOING == "REDO_KEEP_GOING"
ENV_LOCKS_BROKEN == "REDO_LOCKS_BROKEN"
ENV_LOG == "REDO_LOG"
ENV_LOG_INODE == "REDO_LOG_INODE"
ENV_NO_OOB == "REDO_NO_OOB"
ENV_PRETTY == "REDO_PRETTY"
ENV_PWD == "REDO_PWD"
ENV_REDO == "REDO"
ENV_RUNID == "REDO_RUNID"
ENV_SHUFFLE == "REDO_SHUFFLE"
ENV_STARTDIR == "REDO_STARTDIR"
ENV_TARGET == "REDO_TARGET"
ENV_UNLOCKED == "REDO_UNLOCKED"
ENV_VERBOSE == "REDO_VERBOSE"
ENV_XTRACE == "REDO_XTRACE"
ENV_PATH == "PATH"

EnvNames ==
  { ENV_BASE, ENV_COLOR, ENV_DEBUG, ENV_DEBUG_LOCKS, ENV_DEBUG_PIDS, ENV_DEPTH,
    ENV_KEEP_GOING, ENV_LOCKS_BROKEN, ENV_LOG, ENV_LOG_INODE, ENV_NO_OOB,
    ENV_PRETTY, ENV_PWD, ENV_REDO, ENV_RUNID, ENV_SHUFFLE, ENV_STARTDIR,
    ENV_TARGET, ENV_UNLOCKED, ENV_VERBOSE, ENV_XTRACE, ENV_PATH }

\* ----------------------------------------------------------------- strings
\* The value of a variable that is not in the environment.
Unset == << "<unset>" >>
\* A byte sequence that is not valid Unicode, as one token.
BadByte == "<0xff>"

Digits == << "0", "1", "2", "3", "4", "5", "6", "7", "8", "9" >>
IsDigit(c) == \E i \in 1..10 : Digits[i] = c
DigitVal(c) == (CHOOSE i \in 1..10 : Digits[i] = c) - 1

IsUnicode(s) == \A i \in 1..Len(s) : s[i] # BadByte

\* env::var_os(key): None when the variable is not set.
var_os(e, key) == e[key]
\* .unwrap_or_default() of an Option<OsString>
unwrap_or_default(v) == IF v = Unset THEN << >> ELSE v
\* env::var(key): Err when not set or not valid Unicode; here Unset stands for Err.
var(e, key) == IF e[key] # Unset /\ IsUnicode(e[key]) THEN e[key] ELSE Unset

\* ---------------------------------------------------------- 64-bit integers
I64MaxDigits == << 9,2,2,3,3,7,2,0,3,6,8,5,4,7,7,5,8,0,7 >>
I64MinDigits == << 9,2,2,3,3,7,2,0,3,6,8,5,4,7,7,5,8,0,8 >>

RECURSIVE StripZeros(_)
StripZeros(ds) ==
  IF Len(ds) > 1 /\ ds[1] = 0 THEN StripZeros(Tail(ds)) ELSE ds

\* ds <= limit, both digit sequences without leading zeros
MagLeq(ds, limit) ==
  \/ Len(ds) < Len(limit)
  \/ /\ Len(ds) = Len(limit)
     /\ \/ ds = limit
        \/ \E i \in 1..Len(ds) :
             /\ ds[i] < limit[i]
             /\ \A j \in 1..(i - 1) : ds[j] = limit[j]

I64(neg, ds) == [neg |-> neg /\ ds # << 0 >>, digits |-> ds]
I64Zero == I64(FALSE, << 0 >>)
I64One == I64(FALSE, << 1 >>)
ParseErr == [neg |-> FALSE, digits |-> << >>]

\* i64::from_str: an optional sign, then at least one digit, nothing else;
\* an error on overflow.  ParseErr stands for Err.
i64_from_str(s) ==
  LET neg == Len(s) > 0 /\ s[1] = "-"
      signed == Len(s) > 0 /\ s[1] \in { "-", "+" }
      body == IF signed THEN Tail(s) ELSE s
  IN  IF Len(body) = 0 \/ \E i \in 1..Len(body) : ~IsDigit(body[i])
      THEN ParseErr
      ELSE LET ds == StripZeros([i \in 1..Len(body) |-> DigitVal(body[i])])
           IN  IF MagLeq(ds, IF neg THEN I64MinDigits ELSE I64MaxDigits)
               THEN I64(neg, ds)
               ELSE ParseErr

i64_to_string_abs(n) == [i \in 1..Len(n.digits) |-> Digits[n.digits[i] + 1]]

\* i64::to_string
i64_to_string(n) ==
  (IF n.neg THEN << "-" >> ELSE << >>) \o
  [i \in 1..Len(n.digits) |-> Digits[n.digits[i] + 1]]

\* The low 32 bits of the magnitude as two 16-bit limbs << hi, lo >>.
RECURSIVE Low32(_, _, _)
Low32(ds, hi, lo) ==
  IF ds = << >> THEN << hi, lo >>
  ELSE LET l == lo * 10 + ds[1]
           h == hi * 10 + (l \div 65536)
       IN  Low32(Tail(ds), h % 65536, l % 65536)

\* `n as i32`: the low 32 bits of the two's complement value, read as signed.
as_i32(n) ==
  LET m == Low32(n.digits, 0, 0)
      \* two's complement of the magnitude for a negative number
      lo == IF n.neg THEN (65536 - m[2]) % 65536 ELSE m[2]
      hi == IF n.neg
            THEN (65536 - m[1] - (IF m[2] = 0 THEN 0 ELSE 1)) % 65536
            ELSE m[1]
  IN  IF hi >= 32768 THEN (hi - 65536) * 65536 + lo ELSE hi * 65536 + lo

\* ------------------------------------------------------- environment codec
get_int(e, key, default) ==
  LET v == var(e, key)
  IN  IF v = Unset THEN default
      ELSE IF i64_from_str(v) = ParseErr THEN default ELSE i64_from_str(v)

get_bool_present(e, key) == e[key] # Unset

\* get_bool: the variable is present and not empty.
get_bool(e, key) == e[key] # Unset /\ e[key] # << >>

\* ------------------------------------------------------------------- paths
\* A path is the sequence of its components; an absolute path starts with
\* the root component "/".
RootDir == "/"
IsAbsolute(p) == Len(p) > 0 /\ p[1] = RootDir

\* Path::components of a string: the separators split it, "." is dropped.
RECURSIVE StrPathFrom(_, _)
StrPathFrom(s, first) ==
  IF s = << >> THEN << >>
  ELSE IF s[1] = "/"
       THEN (IF first THEN << RootDir >> ELSE << >>) \o StrPathFrom(Tail(s), FALSE)
       ELSE IF s[1] = "." /\ ~first
            THEN StrPathFrom(Tail(s), FALSE)
            ELSE << s[1] >> \o StrPathFrom(Tail(s), FALSE)
StrPath(s) == StrPathFrom(s, TRUE)

\* The string of a path: the components joined by "/".
RECURSIVE PathStr(_)
PathStr(p) ==
  IF p = << >> THEN << >>
  ELSE IF Len(p) = 1 THEN << p[1] >>
  ELSE IF p[1] = RootDir THEN << "/" >> \o PathStr(Tail(p))
  ELSE << p[1], "/" >> \o PathStr(Tail(p))

\* Path::parent is None for the empty path and for the root.
HasParent(p) == p # << >> /\ p # << RootDir >>
Parent(p) == SubSeq(p, 1, Len(p) - 1)
\* PathBuf::push of a sequence of relative components.
Push(p, rel) == p \o rel

\* helpers::normpath: ".." removes the component before it, lexically.
RECURSIVE NormFrom(_, _)
NormFrom(done, rest) ==
  IF rest = << >> THEN done
  ELSE IF rest[1] = ".."
       THEN IF done = << RootDir >> THEN NormFrom(done, Tail(rest))
            ELSE IF done = << >> \/ done[Len(done)] = ".."
                 THEN NormFrom(done \o << ".." >>, Tail(rest))
                 ELSE NormFrom(Parent(done), Tail(rest))
       ELSE NormFrom(done \o << rest[1] >>, Tail(rest))
normpath(p) == NormFrom(<< >>, p)

\* helpers::abs_path(cwd, path)
abs_path(here, p) == IF IsAbsolute(p) THEN normpath(p) ELSE normpath(Push(here, p))

\* common_path::common_path(one, two): the components both start with;
\* None (here << >>) when the first components differ.
RECURSIVE common_path(_, _)
common_path(one, two) ==
  IF one = << >> \/ two = << >> \/ one[1] # two[1] THEN << >>
  ELSE << one[1] >> \o common_path(Tail(one), Tail(two))

\* common_path::common_path_all over a non-empty sequence of paths.
RECURSIVE common_path_all(_)
common_path_all(ps) ==
  IF Len(ps) = 1 THEN ps[1]
  ELSE common_path_all(<< common_path(ps[1], ps[2]) >> \o SubSeq(ps, 3, Len(ps)))

\* ------------------------------------------------------------ session state
None == [some |-> FALSE, val |-> I64Zero]
Some(x) == [some |-> TRUE, val |-> x]
\* Option<Rc<TempDir>>: 0 is None, d > 0 is the directory created by process d.
NoDir == 0

\* RedoPathBuf::try_from(OsString) (helpers): the string must be valid Unicode.
RedoPathValid(s) == IsUnicode(s)

\* v.depth.contains(|c| c != ' ')
HasNonSpace(s) == \E i \in 1..Len(s) : s[i] # " "

OkResult == "ok"
UsageError == "must be run from inside a .do"
InvalidTarget == "InvalidTarget"
DepthError == "contains non-space characters"
OpaqueError == "opaque"
Panic == "panic"

\* The struct literal of Env::inherit.
EnvStruct(e) ==
  [ is_toplevel |-> FALSE,
    base |-> unwrap_or_default(var_os(e, ENV_BASE)),
    pwd |-> unwrap_or_default(var_os(e, ENV_PWD)),
    target |-> unwrap_or_default(var_os(e, ENV_TARGET)),
    depth |-> unwrap_or_default(var(e, ENV_DEPTH)),
    debug |-> as_i32(get_int(e, ENV_DEBUG, I64Zero)),
    debug_locks |-> get_bool(e, ENV_DEBUG_LOCKS),
    debug_pids |-> get_bool(e, ENV_DEBUG_PIDS),
    locks_broken |-> get_bool(e, ENV_LOCKS_BROKEN),
    verbose |-> as_i32(get_int(e, ENV_VERBOSE, I64Zero)),
    xtrace |-> as_i32(get_int(e, ENV_XTRACE, I64Zero)),
    keep_going |-> get_bool(e, ENV_KEEP_GOING),
    log |-> as_i32(get_int(e, ENV_LOG, I64One)),
    log_inode |-> unwrap_or_default(var_os(e, ENV_LOG_INODE)),
    color |-> as_i32(get_int(e, ENV_COLOR, I64Zero)),
    pretty |-> as_i32(get_int(e, ENV_PRETTY, I64Zero)),
    shuffle |-> get_bool(e, ENV_SHUFFLE),
    startdir |-> unwrap_or_default(var_os(e, ENV_STARTDIR)),
    runid |-> IF get_int(e, ENV_RUNID, I64Zero) = I64Zero
              THEN None ELSE Some(get_int(e, ENV_RUNID, I64Zero)),
    unlocked |-> get_bool(e, ENV_UNLOCKED),
    no_oob |-> get_bool(e, ENV_NO_OOB),
    redo_links_dir |-> NoDir ]

ClearAlsoRedo(e) ==
  [e EXCEPT ![ENV_UNLOCKED] = << >>, ![ENV_NO_OOB] = << >>, ![ENV_REDO] = << >>]
ClearOnlyUnlocked(e) == [e EXCEPT ![ENV_UNLOCKED] = << >>]

\* The variables Env::inherit writes once the session is built.
ClearNonInheritable(e) ==
  [e EXCEPT ![ENV_UNLOCKED] = << >>, ![ENV_NO_OOB] = << >>]

inherit_clears_first(e) ==
  IF ~get_bool(e, ENV_REDO)
  THEN [res |-> UsageError, sess |-> EnvStruct(e), env |-> e]
  ELSE IF ~RedoPathValid(unwrap_or_default(var_os(e, ENV_TARGET)))
  THEN [res |-> InvalidTarget, sess |-> EnvStruct(e), env |-> ClearNonInheritable(e)]
  ELSE IF HasNonSpace(EnvStruct(e).depth)
  THEN [res |-> DepthError, sess |-> EnvStruct(e), env |-> ClearNonInheritable(e)]
  ELSE [res |-> OkResult, sess |-> EnvStruct(e), env |-> ClearNonInheritable(e)]

\* Env::inherit on the environment e: the result, the session (meaningful
\* when the result is ok) and the environment it leaves.
inherit(e) ==
  IF ~get_bool(e, ENV_REDO)
  THEN [res |-> UsageError, sess |-> EnvStruct(e), env |-> e]
  ELSE IF ~RedoPathValid(unwrap_or_default(var_os(e, ENV_TARGET)))
  THEN [res |-> InvalidTarget, sess |-> EnvStruct(e), env |-> e]
  ELSE IF HasNonSpace(EnvStruct(e).depth)
  THEN [res |-> DepthError, sess |-> EnvStruct(e), env |-> e]
  ELSE [res |-> OkResult, sess |-> EnvStruct(e), env |-> ClearNonInheritable(e)]

InitNoStateBaseKeeps(e) == e

\* Env::init_no_state
InitNoStateRedo(e) ==
  IF ~get_bool(e, ENV_REDO)
  THEN [e EXCEPT ![ENV_REDO] = << "NOT_DEFINED" >>] ELSE e
InitNoStateBase(e) ==
  IF ~get_bool(e, ENV_BASE)
  THEN [e EXCEPT ![ENV_BASE] = << "NOT_DEFINED" >>] ELSE e
init_no_state_forgets_toplevel(e) == inherit(InitNoStateBase(InitNoStateRedo(e)))

init_no_state(e) ==
  LET is_toplevel == ~get_bool(e, ENV_REDO)
      r == inherit(InitNoStateBase(InitNoStateRedo(e)))
  IN  [r EXCEPT !.sess.is_toplevel = is_toplevel]

\* OptionalBool of an i32 field: Env::log, Env::color, Env::pretty
OptionalBoolOf(n) == IF n = 0 THEN "Off" ELSE IF n = 1 THEN "Auto" ELSE "On"
log(s) == OptionalBoolOf(s.log)
color(s) == OptionalBoolOf(s.color)
pretty(s) == OptionalBoolOf(s.pretty)

mark_locks_broken_session_only(s, e) ==
  [ sess |-> [s EXCEPT !.locks_broken = TRUE, !.log = 0], env |-> e ]

mark_locks_broken_clears_log(s, e) ==
  [ sess |-> [s EXCEPT !.locks_broken = TRUE, !.log = 0],
    env |-> [e EXCEPT ![ENV_LOCKS_BROKEN] = << "1" >>, ![ENV_LOG] = << >>] ]

\* Env::mark_locks_broken on the session s of a process with environment e.
mark_locks_broken(s, e) ==
  [ sess |-> [s EXCEPT !.locks_broken = TRUE, !.log = 0],
    env |-> [e EXCEPT ![ENV_LOCKS_BROKEN] = << "1" >>, ![ENV_LOG] = << "0" >>] ]

FillRunidNoAssert(s) == TRUE
FillRunidZeroIsNone(s) == ~s.runid.some \/ s.runid.val = I64Zero

\* Env::fill_runid: the assertion holds when the session has no runid.
FillRunidAsserts(s) == ~s.runid.some
fill_runid(s, e, runid) ==
  IF ~FillRunidAsserts(s)
  THEN [res |-> Panic, sess |-> s, env |-> e]
  ELSE [ res |-> OkResult,
         sess |-> [s EXCEPT !.runid = Some(runid)],
         env |-> [e EXCEPT ![ENV_RUNID] = i64_to_string(runid)] ]

\* ------------------------------------------------- the tree-root part of init
\* env::current_exe() of every process of the tree.
ExePath == << RootDir, "usr", "bin", "redo" >>
\* What fs::canonicalize(exe_path) may be: the same path, or the file a
\* symbolic link at exe_path points to.
CanonPaths == { ExePath, << RootDir, "opt", "redo", "bin", "redo" >> }

\* The name of the directory tempfile::tempdir() gives process p.
TmpNames == << ".tmpA", ".tmpB", ".tmpC", ".tmpD", ".tmpE", ".tmpF" >>
TmpDirPath(p) == << RootDir, "tmp", TmpNames[p] >>

\* The calls of init that may return an I/O error; NoFailure when all succeed.
NoFailure == "none"
IOFailures ==
  { NoFailure, "current_exe", "canonicalize", "tempdir", "symlink", "current_dir" }

\* try_names: the ../lib/redo variants, the ../redo variants, the directories.
TryNames(canon) ==
  LET dir_names == << Parent(ExePath), Parent(canon) >>
  IN  [i \in 1..2 |-> Push(dir_names[i], << "..", "lib", "redo" >>)] \o
      [i \in 1..2 |-> Push(dir_names[i], << "..", "redo" >>)] \o
      dir_names

\* dirs: try_names without the repetitions, in order.
RECURSIVE Dedup(_, _)
Dedup(done, rest) ==
  IF rest = << >> THEN done
  ELSE IF \E i \in 1..Len(done) : done[i] = rest[1]
       THEN Dedup(done, Tail(rest))
       ELSE Dedup(done \o << rest[1] >>, Tail(rest))

FoundUnlockedRawOnly(canon, unlocked) ==
  \E i \in 1..Len(TryNames(ExePath)) : TryNames(ExePath)[i] \in unlocked

\* found_unlocked: some k of try_names has k/redo-unlocked.
FoundUnlocked(canon, unlocked) ==
  \E i \in 1..Len(TryNames(canon)) : TryNames(canon)[i] \in unlocked

\* new_path: every directory followed by ":", then the old PATH.
RECURSIVE NewPath(_, _)
NewPath(dirs, old_path) ==
  IF dirs = << >> THEN old_path
  ELSE PathStr(dirs[1]) \o << ":" >> \o NewPath(Tail(dirs), old_path)

InitTopAgain(e, p, canon, unlocked, io) ==
  [ res |-> OkResult,
    env |-> [e EXCEPT
               ![ENV_PATH] = NewPath(Dedup(<< >>, TryNames(canon)),
                                     unwrap_or_default(var_os(e, ENV_PATH))),
               ![ENV_REDO] = PathStr(ExePath)],
    dir |-> NoDir ]

\* Lines 89-134 of init for process p: the result, the environment and the
\* ephemeral directory it holds (NoDir when none).
InitTop(e, p, canon, unlocked, io) ==
  IF get_bool(e, ENV_REDO) THEN [res |-> OkResult, env |-> e, dir |-> NoDir]
  ELSE IF io \in { "current_exe", "canonicalize" }
  THEN [res |-> OpaqueError, env |-> e, dir |-> NoDir]
  ELSE IF ~FoundUnlocked(canon, unlocked) /\ io \in { "tempdir", "symlink" }
  THEN [res |-> OpaqueError, env |-> e, dir |-> NoDir]
  ELSE LET found == FoundUnlocked(canon, unlocked)
           dirs == Dedup(<< >>, TryNames(canon)) \o
                   (IF found THEN << >> ELSE << TmpDirPath(p) >>)
       IN  [ res |-> OkResult,
             env |-> [e EXCEPT
                        ![ENV_PATH] = NewPath(dirs, unwrap_or_default(var_os(e, ENV_PATH))),
                        ![ENV_REDO] = PathStr(ExePath)],
             dir |-> IF found THEN NoDir ELSE p ]

\* ---------------------------------------------- the base-directory resolver
\* The implicit target of an init without targets.
DefaultTargets == << << "all" >> >>

\* The walk of lines 160-175 from b: the first directory, b upward to the
\* root, that has a .redo child; << >> (None) when there is none.
RECURSIVE WalkUpToRoot(_, _)
WalkUpToRoot(b, redo_dirs) ==
  IF b \in redo_dirs THEN b
  ELSE IF HasParent(b) THEN WalkUpToRoot(Parent(b), redo_dirs)
  ELSE b

RECURSIVE WalkUp(_, _)
WalkUp(b, redo_dirs) ==
  IF b \in redo_dirs THEN b
  ELSE IF HasParent(b) THEN WalkUp(Parent(b), redo_dirs)
  ELSE << >>

OrigBaseNoCwd(ts, here) ==
  common_path_all([i \in 1..Len(ts) |-> abs_path(here, Parent(StrPath(ts[i])))])

\* orig_base: the common path of the targets' absolute parents and cwd.
OrigBase(ts, here) ==
  common_path_all([i \in 1..Len(ts) |-> abs_path(here, Parent(StrPath(ts[i])))]
                  \o << here >>)

\* The value init gives REDO_BASE.
ResolveBase(ts, here, redo_dirs) ==
  IF WalkUp(OrigBase(ts, here), redo_dirs) # << >>
  THEN WalkUp(OrigBase(ts, here), redo_dirs)
  ELSE OrigBase(ts, here)

InitBaseSkips(e, here, targets, redo_dirs, io) == [res |-> OkResult, env |-> e]

InitBaseAlways(e, here, targets, redo_dirs, io) ==
  LET ts == IF targets = << >> THEN DefaultTargets ELSE targets
  IN  IF io = "current_dir" THEN [res |-> OpaqueError, env |-> e]
      ELSE IF \E i \in 1..Len(ts) : ~HasParent(StrPath(ts[i]))
      THEN [res |-> InvalidTarget, env |-> e]
      ELSE [ res |-> OkResult,
             env |-> [e EXCEPT
                        ![ENV_BASE] = PathStr(ResolveBase(ts, here, redo_dirs)),
                        ![ENV_STARTDIR] = PathStr(here)] ]

\* Lines 135-178 of init.
InitBase(e, here, targets, redo_dirs, io) ==
  IF get_bool(e, ENV_BASE) THEN [res |-> OkResult, env |-> e]
  ELSE LET ts == IF targets = << >> THEN DefaultTargets ELSE targets
       IN  IF io = "current_dir" THEN [res |-> OpaqueError, env |-> e]
           ELSE IF \E i \in 1..Len(ts) : ~HasParent(StrPath(ts[i]))
           THEN [res |-> InvalidTarget, env |-> e]
           ELSE IF OrigBase(ts, here) = << >> THEN [res |-> Panic, env |-> e]
           ELSE [ res |-> OkResult,
                  env |-> [e EXCEPT
                             ![ENV_BASE] = PathStr(ResolveBase(ts, here, redo_dirs)),
                             ![ENV_STARTDIR] = PathStr(here)] ]

\* Env::init of process p.
init(e, p, here, targets, canon, unlocked, redo_dirs, io) ==
  LET top == InitTop(e, p, canon, unlocked, io)
      base == InitBase(top.env, here, targets, redo_dirs, io)
      r == inherit(base.env)
  IN  IF top.res # OkResult
      THEN [res |-> top.res, sess |-> EnvStruct(e), env |-> top.env]
      ELSE IF base.res # OkResult
      THEN [res |-> base.res, sess |-> EnvStruct(e), env |-> base.env]
      ELSE IF r.res # OkResult THEN r
      ELSE [r EXCEPT !.sess.is_toplevel = ~get_bool(e, ENV_REDO),
                     !.sess.redo_links_dir = top.dir]

\* ------------------------------------------------------------ the processes
VARIABLES
  pc,         \* pc[p]: "absent", "start", "running", "failed", "panicked", "exited"
  parent,     \* parent[p]: the process that spawned p, 0 for the root
  environ,    \* environ[p]: the environment block of process p
  cwd,        \* cwd[p]: the working directory of process p
  sessions,   \* sessions[p]: the live Env objects of process p
  ret,        \* ret[p]: the last call of this layer in p and what it returned
  assigned,   \* assigned[p]: the ids fill_runid has assigned in p, in order
  inherited,  \* inherited[p]: the ids assigned in ancestors of p before its spawn
  tmpdirs,    \* the ephemeral directories that exist, named by their creator
  fs          \* the file system: canon, unlocked, redo_dirs

vars == << pc, parent, environ, cwd, sessions, ret, assigned, inherited, tmpdirs, fs >>

Procs == 1..MaxProcs
Root == 1

Str(name) == << name >>
Proj == << RootDir, "proj" >>
ProjA == << RootDir, "proj", "a" >>
ProjAB == << RootDir, "proj", "a", "b" >>
Other == << RootDir, "other" >>

\* The working directories a process may run in.
CwdSet == { Proj, ProjAB, Other }
\* The sets of directories that hold a .redo child.
MarkerSets == { {}, { << RootDir >> }, { Proj }, { ProjA }, { Proj, ProjA } }
\* The candidate directories that may hold redo-unlocked.
UnlockedSets ==
  { {}, { Parent(ExePath) }, { << RootDir, "opt", "redo", "bin", "..", "lib", "redo" >> } }

\* The target lists init is called with.
TargetLists ==
  { << >>,
    << << "a", "/", "b", "/", "out" >>, << "a", "/", "c", "/", "out" >> >>,
    << << "out" >>, << >> >>,
    << << "/", "other", "/", "x" >> >>,
    << << "..", "/", "x" >> >> }

\* The ids fill_runid is called with: 0, 7, 2^32, i64::MIN.
RunIds ==
  { I64Zero, I64(FALSE, << 7 >>), I64(FALSE, << 4,2,9,4,9,6,7,2,9,6 >>),
    I64(TRUE, I64MinDigits) }

EmptyEnv == [k \in EnvNames |-> Unset]
NoRet == [op |-> "none", res |-> OkResult]

AfterDropLeaks(dirs, before, after) == dirs

\* Dropping the sessions ss of process p that are not kept: an ephemeral
\* directory is removed when its last owner goes.
Owned(ss) == { ss[i].redo_links_dir : i \in 1..Len(ss) } \ { NoDir }
AfterDrop(dirs, before, after) == dirs \ (Owned(before) \ Owned(after))

\* What a constructor (init, init_no_state, inherit) called in p leaves, given
\* its result r: the session joins the live ones, or the error ends the process.
Constructed(p, op, r) ==
  /\ environ' = [environ EXCEPT ![p] = r.env]
  /\ ret' = [ret EXCEPT ![p] = [op |-> op, res |-> r.res]]
  /\ IF r.res = OkResult
     THEN /\ pc' = [pc EXCEPT ![p] = "running"]
          /\ sessions' = [sessions EXCEPT ![p] = Append(@, r.sess)]
          /\ tmpdirs' = tmpdirs \cup (Owned(<< r.sess >>))
     ELSE /\ pc' = [pc EXCEPT ![p] = IF r.res = Panic THEN "panicked" ELSE "failed"]
          /\ sessions' = [sessions EXCEPT ![p] = << >>]
          /\ tmpdirs' = AfterDrop(tmpdirs, sessions[p], << >>)
  /\ UNCHANGED << parent, cwd, assigned, inherited, fs >>

CanConstruct(p) == pc[p] \in { "start", "running" } /\ Len(sessions[p]) < MaxSess

CallInit(p, targets, io) ==
  /\ CanConstruct(p)
  /\ Constructed(p, "init",
       init(environ[p], p, cwd[p], targets, fs.canon, fs.unlocked, fs.redo_dirs, io))

CallInitNoState(p) ==
  /\ CanConstruct(p)
  /\ Constructed(p, "init_no_state", init_no_state(environ[p]))

CallInherit(p) ==
  /\ CanConstruct(p)
  /\ Constructed(p, "inherit", inherit(environ[p]))

MarkLocksBroken(p, i) ==
  /\ pc[p] = "running"
  /\ i \in 1..Len(sessions[p])
  /\ LET r == mark_locks_broken(sessions[p][i], environ[p])
     IN  /\ sessions' = [sessions EXCEPT ![p][i] = r.sess]
         /\ environ' = [environ EXCEPT ![p] = r.env]
  /\ ret' = [ret EXCEPT ![p] = [op |-> "mark_locks_broken", res |-> OkResult]]
  /\ UNCHANGED << pc, parent, cwd, assigned, inherited, tmpdirs, fs >>

FillRunid(p, i, runid) ==
  /\ pc[p] = "running"
  /\ i \in 1..Len(sessions[p])
  /\ LET r == fill_runid(sessions[p][i], environ[p], runid)
     IN  /\ environ' = [environ EXCEPT ![p] = r.env]
         /\ ret' = [ret EXCEPT ![p] = [op |-> "fill_runid", res |-> r.res]]
         /\ IF r.res = OkResult
            THEN /\ sessions' = [sessions EXCEPT ![p][i] = r.sess]
                 /\ assigned' = [assigned EXCEPT ![p] = Append(@, runid)]
                 /\ UNCHANGED << pc, tmpdirs >>
            ELSE \* the panic unwinds the process and drops its sessions
                 /\ pc' = [pc EXCEPT ![p] = "panicked"]
                 /\ sessions' = [sessions EXCEPT ![p] = << >>]
                 /\ tmpdirs' = AfterDrop(tmpdirs, sessions[p], << >>)
                 /\ UNCHANGED assigned
  /\ UNCHANGED << parent, cwd, inherited, fs >>

\* #[derive(Clone)]: the clone shares the ephemeral directory.
Clone(p, i) ==
  /\ pc[p] = "running"
  /\ i \in 1..Len(sessions[p])
  /\ Len(sessions[p]) < MaxSess
  /\ sessions' = [sessions EXCEPT ![p] = Append(@, @[i])]
  /\ ret' = [ret EXCEPT ![p] = [op |-> "clone", res |-> OkResult]]
  /\ UNCHANGED << pc, parent, environ, cwd, assigned, inherited, tmpdirs, fs >>

RemoveAt(ss, i) == SubSeq(ss, 1, i - 1) \o SubSeq(ss, i + 1, Len(ss))

\* The session i of p goes out of scope.
Drop(p, i) ==
  /\ pc[p] = "running"
  /\ i \in 1..Len(sessions[p])
  /\ sessions' = [sessions EXCEPT ![p] = RemoveAt(@, i)]
  /\ tmpdirs' = AfterDrop(tmpdirs, sessions[p], RemoveAt(sessions[p], i))
  /\ ret' = [ret EXCEPT ![p] = [op |-> "drop", res |-> OkResult]]
  /\ UNCHANGED << pc, parent, environ, cwd, assigned, inherited, fs >>

\* A process that has its session spawns the child c in the directory dir:
\* the child starts with a copy of the environment.
Spawn(p, c, dir) ==
  /\ pc[p] = "running"
  /\ pc[c] = "absent"
  /\ \A d \in Procs : d < c => pc[d] # "absent"
  /\ pc' = [pc EXCEPT ![c] = "start"]
  /\ parent' = [parent EXCEPT ![c] = p]
  /\ environ' = [environ EXCEPT ![c] = environ[p]]
  /\ cwd' = [cwd EXCEPT ![c] = dir]
  /\ inherited' = [inherited EXCEPT ![c] = inherited[p] \o assigned[p]]
  /\ UNCHANGED << sessions, ret, assigned, tmpdirs, fs >>

Exit(p) ==
  /\ pc[p] = "running"
  /\ pc' = [pc EXCEPT ![p] = "exited"]
  /\ sessions' = [sessions EXCEPT ![p] = << >>]
  /\ tmpdirs' = AfterDrop(tmpdirs, sessions[p], << >>)
  /\ UNCHANGED << parent, environ, cwd, ret, assigned, inherited, fs >>

\* ---------------------------------------------------------- initial states
\* A variable and a value the root's environment may hold at the start.
Preset(k, v) == [key |-> k, val |-> v]

InitWith(envs, dirs, canons, unlockeds, markers) ==
  /\ pc = [p \in Procs |-> IF p = Root THEN "start" ELSE "absent"]
  /\ parent = [p \in Procs |-> 0]
  /\ \E e \in envs : environ = [p \in Procs |-> IF p = Root THEN e ELSE EmptyEnv]
  /\ \E d \in dirs : cwd = [p \in Procs |-> d]
  /\ sessions = [p \in Procs |-> << >>]
  /\ ret = [p \in Procs |-> NoRet]
  /\ assigned = [p \in Procs |-> << >>]
  /\ inherited = [p \in Procs |-> << >>]
  /\ tmpdirs = {}
  /\ \E c \in canons, u \in unlockeds, m \in markers :
       fs = [canon |-> c, unlocked |-> u, redo_dirs |-> m]

\* ------------------------------------------------------- the process tree
\* Every process calls one constructor when it starts, then the mutators, and
\* spawns children.
TreeEnvs ==
  { EmptyEnv,
    [EmptyEnv EXCEPT ![ENV_REDO] = Str("redo")],
    [EmptyEnv EXCEPT ![ENV_BASE] = PathStr(Other)] }
\* No targets, and a target without a parent directory.
TreeTargets == { << >>, << << >> >> }
I64Min == I64(TRUE, I64MinDigits)
TreeIds == { I64Zero, I64Min }
\* The root runs in /proj, the other processes in /proj/a/b.
TreeDirs == { ProjAB }

Init == InitWith(TreeEnvs, { Proj }, { ExePath }, { {} }, { { ProjA } })

Next ==
  \/ \E p \in Procs, targets \in TreeTargets :
       pc[p] = "start" /\ CallInit(p, targets, NoFailure)
  \/ \E p \in Procs : pc[p] = "start" /\ CallInitNoState(p)
  \/ \E p \in Procs : pc[p] = "start" /\ CallInherit(p)
  \/ \E p \in Procs : MarkLocksBroken(p, 1)
  \/ \E p \in Procs, runid \in TreeIds : FillRunid(p, 1, runid)
  \/ \E p \in Procs, c \in Procs, dir \in TreeDirs : Spawn(p, c, dir)

Spec == Init /\ [][Next]_vars

\* ------------------------------------------- nested and repeated constructors
\* A tree whose root starts outside any invocation (REDO unset or empty);
\* a process may call the constructors again while it holds a session.
NestedEnvs ==
  { EmptyEnv,
    [EmptyEnv EXCEPT ![ENV_REDO] = << >>],
    [EmptyEnv EXCEPT ![ENV_BASE] = PathStr(Other)],
    [EmptyEnv EXCEPT ![ENV_BASE] = << >>],
    [EmptyEnv EXCEPT ![ENV_DEPTH] = << " ", "x" >>],
    [EmptyEnv EXCEPT ![ENV_UNLOCKED] = Str("1"), ![ENV_NO_OOB] = Str("0")] }
NestedTargets ==
  { << >>,
    << << "a", "/", "b", "/", "out" >>, << "a", "/", "c", "/", "out" >> >>,
    << << >> >> }

InitNested ==
  InitWith(NestedEnvs, { Proj }, { ExePath }, { {} }, { { ProjA } })

NextNested ==
  \/ \E p \in Procs, targets \in NestedTargets : CallInit(p, targets, NoFailure)
  \/ \E p \in Procs : CallInitNoState(p)
  \/ \E p \in Procs : CallInherit(p)
  \/ \E p \in Procs, c \in Procs, dir \in { Proj, ProjAB } : Spawn(p, c, dir)

SpecNested == InitNested /\ [][NextNested]_vars

\* ------------------------------------------------------------ one process
\* One process, started outside an invocation (every variable unset) or inside
\* one (REDO and REDO_BASE set), with up to MaxPreset more variables set.  It
\* calls one constructor, then the mutators.
OutsideEnv == EmptyEnv
InsideEnv == [EmptyEnv EXCEPT ![ENV_REDO] = Str("redo"), ![ENV_BASE] = PathStr(Proj)]

AllPresets ==
  { Preset(ENV_REDO, << >>), Preset(ENV_REDO, Unset),
    Preset(ENV_BASE, << >>), Preset(ENV_BASE, PathStr(Other)),
    Preset(ENV_STARTDIR, PathStr(Other)), Preset(ENV_PWD, << "a", "/", "b" >>),
    Preset(ENV_TARGET, Str("out")), Preset(ENV_TARGET, << "a", "/", BadByte >>),
    Preset(ENV_DEPTH, << >>), Preset(ENV_DEPTH, << " ", " " >>),
    Preset(ENV_DEPTH, << " ", "x" >>), Preset(ENV_DEPTH, << " ", BadByte >>),
    Preset(ENV_DEBUG, Str("2")), Preset(ENV_DEBUG, Str("x")),
    Preset(ENV_DEBUG_LOCKS, Str("1")), Preset(ENV_DEBUG_PIDS, Str("0")),
    Preset(ENV_KEEP_GOING, Str("1")), Preset(ENV_SHUFFLE, << >>),
    Preset(ENV_LOCKS_BROKEN, Str("1")),
    Preset(ENV_VERBOSE, << "+", "1" >>), Preset(ENV_XTRACE, << "-", "1" >>),
    Preset(ENV_LOG, Str("0")), Preset(ENV_LOG, Str("2")), Preset(ENV_LOG, << >>),
    Preset(ENV_LOG, << "4","2","9","4","9","6","7","2","9","6" >>),
    Preset(ENV_LOG_INODE, Str("inode")),
    Preset(ENV_COLOR, Str("1")), Preset(ENV_COLOR, << "-", "1" >>),
    Preset(ENV_COLOR, << "4","2","9","4","9","6","7","2","9","7" >>),
    Preset(ENV_PRETTY, Str("2")), Preset(ENV_PRETTY, << " ", "1" >>),
    Preset(ENV_PRETTY, [i \in 1..19 |-> Digits[I64MinDigits[i] + 1]]),
    Preset(ENV_RUNID, Str("0")), Preset(ENV_RUNID, Str("7")),
    Preset(ENV_RUNID, << "0", "0" >>),
    Preset(ENV_UNLOCKED, Str("1")), Preset(ENV_NO_OOB, Str("1")),
    Preset(ENV_PATH, << "/", "bin" >>) }

\* The environments that differ from e in at most n of the presets ps.
RECURSIVE Around(_, _, _)
Around(e, ps, n) ==
  IF n = 0 THEN { e }
  ELSE Around(e, ps, n - 1) \cup
       { [f EXCEPT ![x.key] = x.val] : f \in Around(e, ps, n - 1), x \in ps }

InitOne ==
  InitWith(Around(OutsideEnv, AllPresets, MaxPreset) \cup
             Around(InsideEnv, AllPresets, MaxPreset),
           { Proj }, { ExePath }, { {} }, { { ProjA } })

OneTargets == { << >>, << << "out" >>, << >> >> }

NextOne ==
  \/ \E targets \in OneTargets : pc[Root] = "start" /\ CallInit(Root, targets, NoFailure)
  \/ pc[Root] = "start" /\ CallInitNoState(Root)
  \/ pc[Root] = "start" /\ CallInherit(Root)
  \/ MarkLocksBroken(Root, 1)
  \/ \E runid \in RunIds : FillRunid(Root, 1, runid)

SpecOne == InitOne /\ [][NextOne]_vars

\* ------------------------------------------------ one process, any file system
\* One process in any of the working directories, with any of the file system
\* layouts; it calls the constructors (an I/O call of init may fail), clones
\* and drops its sessions, and exits.
InitEnvs ==
  { OutsideEnv, InsideEnv,
    [OutsideEnv EXCEPT ![ENV_BASE] = << >>],
    [OutsideEnv EXCEPT ![ENV_PATH] = << "/", "bin" >>],
    [OutsideEnv EXCEPT ![ENV_DEPTH] = << "x" >>],
    [OutsideEnv EXCEPT ![ENV_REDO] = Str("redo")] }

InitInit == InitWith(InitEnvs, CwdSet, CanonPaths, UnlockedSets, MarkerSets)

NextInit ==
  \/ \E targets \in TargetLists, io \in IOFailures : CallInit(Root, targets, io)
  \/ CallInitNoState(Root)
  \/ CallInherit(Root)
  \/ \E i \in 1..MaxSess : Clone(Root, i)
  \/ \E i \in 1..MaxSess : Drop(Root, i)
  \/ Exit(Root)

SpecInit == InitInit /\ [][NextInit]_vars

\* ------------------------------------------- a tree started outside a session
\* The root starts with REDO and REDO_BASE unset; the processes call the
\* constructors (an init may be given a target without a parent, or fail to
\* read its working directory) and the mutators, and spawn children.
OutsideEnvs ==
  { OutsideEnv,
    [OutsideEnv EXCEPT ![ENV_PATH] = << "/", "bin" >>, ![ENV_LOG] = Str("2")] }
OutsideTargets ==
  { << >>,
    << << "a", "/", "b", "/", "out" >>, << "a", "/", "c", "/", "out" >> >>,
    << << >> >> }
\* The init calls: every target list where the I/O succeeds, and one where
\* current_dir fails.
OutsideCalls ==
  { << ts, NoFailure >> : ts \in OutsideTargets } \cup { << << >>, "current_dir" >> }

\* The root calls the constructors any number of times, the others once.
Again(p) == p = Root \/ pc[p] = "start"

InitOutside ==
  InitWith(OutsideEnvs, { Proj }, { ExePath }, { {} }, { { ProjA } })

NextOutside ==
  \/ \E p \in Procs, call \in OutsideCalls :
       Again(p) /\ CallInit(p, call[1], call[2])
  \/ \E p \in Procs : Again(p) /\ CallInitNoState(p)
  \/ \E p \in Procs : Again(p) /\ CallInherit(p)
  \/ \E p \in Procs : MarkLocksBroken(p, 1)
  \/ \E p \in Procs : FillRunid(p, 1, I64(FALSE, << 7 >>))
  \/ \E p \in Procs, c \in Procs : Spawn(p, c, ProjAB)

SpecOutside == InitOutside /\ [][NextOutside]_vars

\* ------------------------------------------------------------------ claims
Ctors == { "init", "init_no_state", "inherit" }

\* The variable k is set in e to a string that is not empty.
NonEmpty(e, k) == e[k] \notin { Unset, << >> }

\* This step is a call of op in process p (a constructor that succeeds adds a
\* session, one that fails ends the process).
Called(p, op) ==
  /\ ret'[p].op = op
  /\ sessions'[p] # sessions[p] \/ pc'[p] # pc[p]

\* The session the last constructor call of p returned.
Newest(ss) == ss[Len(ss)]

\* C1: a constructor call that finds REDO unset or empty and returns a session
\* returns one with is_toplevel; a constructor call that finds REDO non-empty
\* leaves REDO_BASE as it found it, and the session it returns is not toplevel.
C1_ToplevelOnlyFirst ==
  [][\A p \in Procs : \A op \in Ctors :
       Called(p, op) =>
         IF NonEmpty(environ[p], ENV_REDO)
         THEN /\ environ'[p][ENV_BASE] = environ[p][ENV_BASE]
              /\ ret'[p].res = OkResult => ~Newest(sessions'[p]).is_toplevel
         ELSE ret'[p].res = OkResult => Newest(sessions'[p]).is_toplevel]_vars

\* A child and its parent both hold a session, the parent's first one is
\* toplevel, the child's is not, and the parent has called a constructor twice.
C1_Witness ==
  \E p \in Procs :
    /\ parent[p] = Root
    /\ ret[p].op \in Ctors /\ Len(sessions[p]) = 1
    /\ ~sessions[p][1].is_toplevel
    /\ Len(sessions[Root]) = 2
    /\ sessions[Root][1].is_toplevel /\ ~sessions[Root][2].is_toplevel

AllSessions == { << p, i >> \in Procs \X (1..MaxSess) : i <= Len(sessions[p]) }
Toplevels == { p \in Procs : \E i \in 1..Len(sessions[p]) : sessions[p][i].is_toplevel }
DirOwners ==
  { p \in Procs : \E i \in 1..Len(sessions[p]) : sessions[p][i].redo_links_dir # NoDir }

\* C2: at most one process of the tree holds a toplevel session, at most one
\* owns an ephemeral directory, and a session that owns one is toplevel.
C2_OneToplevel ==
  /\ Cardinality(Toplevels) <= 1
  /\ Cardinality(DirOwners) <= 1
  /\ \A x \in AllSessions :
       sessions[x[1]][x[2]].redo_links_dir # NoDir => sessions[x[1]][x[2]].is_toplevel

\* The root holds the toplevel session and the directory while a child it
\* spawned holds a session of its own, made by init.
C2_Witness ==
  /\ Toplevels = { Root } /\ DirOwners = { Root }
  /\ \E c \in Procs : parent[c] = Root /\ ret[c].op = "init" /\ Len(sessions[c]) = 1

\* C3: once REDO_BASE is non-empty in a process, no call of this layer in it
\* changes REDO_BASE or REDO_STARTDIR, a child starts with its parent's values,
\* and every session a constructor returns holds the values of the environment.
C3_BaseWriteOnce ==
  [][\A p \in Procs :
       /\ (pc[p] # "absent" /\ NonEmpty(environ[p], ENV_BASE)) =>
            /\ environ'[p][ENV_BASE] = environ[p][ENV_BASE]
            /\ environ'[p][ENV_STARTDIR] = environ[p][ENV_STARTDIR]
       /\ (pc[p] = "absent" /\ pc'[p] # "absent") =>
            /\ environ'[p][ENV_BASE] = environ[parent'[p]][ENV_BASE]
            /\ environ'[p][ENV_STARTDIR] = environ[parent'[p]][ENV_STARTDIR]
       /\ \A i \in 1..Len(sessions'[p]) :
            /\ sessions'[p][i].base = unwrap_or_default(environ'[p][ENV_BASE])
            /\ sessions'[p][i].startdir = unwrap_or_default(environ'[p][ENV_STARTDIR])
            /\ (parent'[p] # 0 /\ NonEmpty(environ'[parent'[p]], ENV_BASE)) =>
                 /\ sessions'[p][i].base = environ'[parent'[p]][ENV_BASE]
                 /\ sessions'[p][i].startdir =
                      unwrap_or_default(environ'[parent'[p]][ENV_STARTDIR])]_vars

\* The root resolved REDO_BASE from /proj; its child ran init in /proj/a/b,
\* then a mutator, and holds the root's base and startdir.
C3_Witness ==
  \E c \in Procs :
    /\ parent[c] = Root /\ cwd[c] = ProjAB /\ Len(sessions[c]) = 1
    /\ ret[Root].op = "init" /\ ret[c].op \in { "mark_locks_broken", "fill_runid" }
    /\ sessions[c][1].base = PathStr(Proj) /\ sessions[c][1].startdir = PathStr(Proj)
    /\ environ[c][ENV_BASE] = PathStr(Proj)

\* C5: a constructor that returns a session leaves REDO_UNLOCKED and
\* REDO_NO_OOB empty, the session holds the values they had, and the sessions of
\* the children decode both as false.
C5_NonInheritable ==
  [][\A p \in Procs :
       /\ \A op \in Ctors : (Called(p, op) /\ ret'[p].res = OkResult) =>
            /\ environ'[p][ENV_UNLOCKED] = << >>
            /\ environ'[p][ENV_NO_OOB] = << >>
            /\ Newest(sessions'[p]).unlocked = NonEmpty(environ[p], ENV_UNLOCKED)
            /\ Newest(sessions'[p]).no_oob = NonEmpty(environ[p], ENV_NO_OOB)
       /\ pc'[p] = "running" =>
            ~NonEmpty(environ'[p], ENV_UNLOCKED) /\ ~NonEmpty(environ'[p], ENV_NO_OOB)
       /\ parent'[p] # 0 => \A i \in 1..Len(sessions'[p]) :
            ~sessions'[p][i].unlocked /\ ~sessions'[p][i].no_oob]_vars

\* The root's session is unlocked and no_oob, from REDO_UNLOCKED=1 and
\* REDO_NO_OOB=0, and its child has a session that is neither.
C5_Witness ==
  /\ Len(sessions[Root]) = 1 /\ sessions[Root][1].unlocked /\ sessions[Root][1].no_oob
  /\ environ[Root][ENV_UNLOCKED] = << >>
  /\ \E c \in Procs : parent[c] = Root /\ Len(sessions[c]) = 1 /\ ~sessions[c][1].unlocked

Last(q) == q[Len(q)]
RECURSIVE SumLen(_, _)
SumLen(f, n) == IF n = 0 THEN 0 ELSE Len(f[n]) + SumLen(f, n - 1)
Runids ==
  { sessions[x[1]][x[2]].runid : x \in { y \in AllSessions : sessions[y[1]][y[2]].runid.some } }

\* C6 as claimed: one successful fill_runid in the whole tree, none in a
\* process spawned after an ancestor's, and no two different runids.
C6_Original ==
  /\ SumLen(assigned, MaxProcs) <= 1
  /\ \A p \in Procs : inherited[p] # << >> => assigned[p] = << >>
  /\ Cardinality(Runids) <= 1

\* C6 amended: a session is assigned a runid at most once, and a process
\* spawned after an ancestor assigned a non-zero id cannot assign one: its
\* fill_runid fails the assertion and its session holds the ancestor's id.
C6_WriteOnceDownTheTree ==
  \A p \in Procs :
    /\ Len(assigned[p]) <= 1
    /\ (inherited[p] # << >> /\ Last(inherited[p]) # I64Zero) =>
         /\ assigned[p] = << >>
         /\ \A i \in 1..Len(sessions[p]) : sessions[p][i].runid = Some(Last(inherited[p]))
         /\ ret[p].op = "fill_runid" => ret[p].res = Panic

\* A child spawned after its parent assigned i64::MIN called fill_runid, which
\* failed the assertion.
C6_Witness ==
  \E c \in Procs :
    /\ parent[c] = Root /\ assigned[Root] = << I64Min >> /\ inherited[c] = << I64Min >>
    /\ ret[c] = [op |-> "fill_runid", res |-> Panic] /\ pc[c] = "panicked"

\* C8 as claimed: a child spawned after fill_runid(id) decodes Some(id).
C8_Original ==
  \A c \in Procs :
    (inherited[c] # << >> /\ assigned[c] = << >>) =>
      \A i \in 1..Len(sessions[c]) : sessions[c][i].runid = Some(Last(inherited[c]))

\* C8 amended: the child decodes Some(id) when id is not 0, and None when
\* id is 0.
C8_RunidRoundTrip ==
  \A c \in Procs :
    (inherited[c] # << >> /\ assigned[c] = << >>) =>
      \A i \in 1..Len(sessions[c]) :
        sessions[c][i].runid =
          IF Last(inherited[c]) = I64Zero THEN None ELSE Some(Last(inherited[c]))

\* A child spawned after fill_runid(i64::MIN) holds Some(i64::MIN), as its
\* parent does.
C8_Witness ==
  \E c \in Procs :
    /\ parent[c] = Root /\ inherited[c] = << I64Min >> /\ Len(sessions[c]) = 1
    /\ sessions[c][1].runid = Some(I64Min) /\ sessions[Root][1].runid = Some(I64Min)
    /\ environ[c][ENV_RUNID] = << "-" >> \o [i \in 1..19 |-> Digits[I64MinDigits[i] + 1]]

\* C4: an inherit called where REDO is unset or empty returns the usage
\* error, gives no session and ends the process, whatever else is set.
C4_InheritNeedsRedo ==
  [][\A p \in Procs :
       (Called(p, "inherit") /\ ~NonEmpty(environ[p], ENV_REDO)) =>
         /\ ret'[p].res = UsageError
         /\ sessions'[p] = << >>
         /\ pc'[p] = "failed"]_vars

\* inherit returned the usage error where REDO is empty, not unset, and
\* REDO_TARGET or REDO_DEPTH is invalid too.
C4_Witness ==
  /\ ret[Root] = [op |-> "inherit", res |-> UsageError]
  /\ environ[Root][ENV_REDO] = << >>
  /\ \/ ~RedoPathValid(environ[Root][ENV_TARGET])
     \/ environ[Root][ENV_DEPTH] = << " ", "x" >>

\* C7: on a session that fill_runid(id1) has assigned, fill_runid(id2) fails
\* the assertion and changes neither the session nor the environment; and in
\* every process that has assigned an id, no later call has changed it.
C7_SecondFillFails ==
  \A p \in Procs :
    /\ \A i \in 1..Len(sessions[p]) : \A id1 \in RunIds, id2 \in RunIds :
         LET r1 == fill_runid(sessions[p][i], environ[p], id1)
             r2 == fill_runid(r1.sess, r1.env, id2)
         IN  r1.res = OkResult =>
               /\ r1.sess.runid = Some(id1)
               /\ r2 = [res |-> Panic, sess |-> r1.sess, env |-> r1.env]
    /\ assigned[p] # << >> =>
         /\ Len(assigned[p]) = 1
         /\ i64_from_str(environ[p][ENV_RUNID]) = assigned[p][1]
         /\ \A i \in 1..Len(sessions[p]) : sessions[p][i].runid = Some(assigned[p][1])

\* fill_runid(0) succeeded and a second fill_runid then failed the assertion:
\* REDO_RUNID still holds "0".
C7_Witness ==
  /\ assigned[Root] = << I64Zero >>
  /\ ret[Root] = [op |-> "fill_runid", res |-> Panic]
  /\ environ[Root][ENV_RUNID] = << "0" >>

\* The fields of a session other than locks_broken and log.
SameButLocks(s, t) == [t EXCEPT !.locks_broken = s.locks_broken, !.log = s.log] = s

\* C9: mark_locks_broken twice gives what mark_locks_broken once gives:
\* locks_broken, log Off, REDO_LOCKS_BROKEN non-empty, REDO_LOG read as Off,
\* every other field and variable as before.
C9_MarkLocksBrokenIdempotent ==
  \A p \in Procs : \A i \in 1..Len(sessions[p]) :
    LET r1 == mark_locks_broken(sessions[p][i], environ[p])
        r2 == mark_locks_broken(r1.sess, r1.env)
    IN  /\ r2 = r1
        /\ r1.sess.locks_broken /\ log(r1.sess) = "Off"
        /\ NonEmpty(r1.env, ENV_LOCKS_BROKEN)
        /\ OptionalBoolOf(as_i32(get_int(r1.env, ENV_LOG, I64One))) = "Off"
        /\ SameButLocks(sessions[p][i], r1.sess)
        /\ \A k \in EnvNames \ { ENV_LOCKS_BROKEN, ENV_LOG } : r1.env[k] = environ[p][k]
        /\ ret[p].op = "mark_locks_broken" =>
             r1 = [sess |-> sessions[p][i], env |-> environ[p]]

\* mark_locks_broken has run on a session that was built with REDO_COLOR=1 and
\* REDO_TARGET=out.
C9_Witness ==
  /\ ret[Root].op = "mark_locks_broken" /\ Len(sessions[Root]) = 1
  /\ sessions[Root][1].locks_broken /\ sessions[Root][1].log = 0
  /\ environ[Root][ENV_LOG] = << "0" >> /\ environ[Root][ENV_COLOR] = << "1" >>
  /\ environ[Root][ENV_TARGET] = << "out" >>

\* The directories init compares: the absolute parents of the targets and
\* the working directory.
IsPrefix(q, d) == Len(q) <= Len(d) /\ SubSeq(d, 1, Len(q)) = q
Prefixes(d) == { SubSeq(d, 1, n) : n \in 1..Len(d) }
Longest(S) == CHOOSE d \in S : \A r \in S : Len(r) <= Len(d)
TargetDirs(targets, here) ==
  { abs_path(here, Parent(StrPath(targets[i]))) : i \in 1..Len(targets) } \cup { here }
CommonAncestor(targets, here) ==
  Longest({ q \in Prefixes(here) : \A d \in TargetDirs(targets, here) : IsPrefix(q, d) })
NearestMarked(c, redo_dirs) ==
  IF Prefixes(c) \cap redo_dirs = {} THEN c ELSE Longest(Prefixes(c) \cap redo_dirs)
ExpectedBase(targets, here, redo_dirs) ==
  NearestMarked(CommonAncestor(IF targets = << >> THEN DefaultTargets ELSE targets, here),
                redo_dirs)

\* C10: an init that finds REDO_BASE unset or empty and gets as far as setting
\* it sets it to the nearest directory with a .redo child from the common
\* ancestor of the targets' parents and the working directory upward, or to that
\* ancestor when there is none, and sets REDO_STARTDIR to the working directory;
\* an init that succeeds has set both.
C10_ResolvedBase ==
  \A p \in Procs : pc[p] \in { "start", "running" } =>
    \A targets \in TargetLists :
      LET r == init(environ[p], p, cwd[p], targets, fs.canon, fs.unlocked,
                    fs.redo_dirs, NoFailure)
      IN  ~NonEmpty(environ[p], ENV_BASE) =>
            /\ r.res = OkResult => NonEmpty(r.env, ENV_BASE)
            /\ NonEmpty(r.env, ENV_BASE) =>
                 /\ r.env[ENV_BASE] = PathStr(ExpectedBase(targets, cwd[p], fs.redo_dirs))
                 /\ r.env[ENV_STARTDIR] = PathStr(cwd[p])

\* init run in /proj/a/b, where /proj/a and /proj have a .redo child, has set
\* REDO_BASE to /proj/a and REDO_STARTDIR to /proj/a/b.
C10_Witness ==
  /\ ret[Root] = [op |-> "init", res |-> OkResult]
  /\ cwd[Root] = ProjAB /\ fs.redo_dirs = { Proj, ProjA }
  /\ environ[Root][ENV_BASE] = PathStr(ProjA)
  /\ environ[Root][ENV_STARTDIR] = PathStr(ProjAB)
  /\ sessions[Root][1].base = PathStr(ProjA)

\* The absolute parents of the targets, without the working directory, and
\* their longest common prefix.
ParentDirs(targets, here) ==
  { abs_path(here, Parent(StrPath(targets[i]))) : i \in 1..Len(targets) }
ParentsAncestor(targets, here) ==
  Longest({ q \in UNION { Prefixes(d) : d \in ParentDirs(targets, here) } :
            \A d \in ParentDirs(targets, here) : IsPrefix(q, d) })
\* The target lists init resolves a base for: not empty, every target with a
\* parent.
ValidTargets ==
  { ts \in TargetLists : ts # << >> /\ \A i \in 1..Len(ts) : HasParent(StrPath(ts[i])) }
ExampleTargets == << << "a", "/", "b", "/", "out" >>, << "a", "/", "c", "/", "out" >> >>

\* C11 as claimed: without a .redo at or above the common ancestor of the
\* targets' parents, init sets REDO_BASE to that ancestor.
C11_Original ==
  \A p \in Procs : pc[p] \in { "start", "running" } =>
    \A targets \in ValidTargets :
      LET r == init(environ[p], p, cwd[p], targets, fs.canon, fs.unlocked,
                    fs.redo_dirs, NoFailure)
      IN  ( /\ ~NonEmpty(environ[p], ENV_BASE)
            /\ NonEmpty(r.env, ENV_BASE)
            /\ Prefixes(ParentsAncestor(targets, cwd[p])) \cap fs.redo_dirs = {} ) =>
            r.env[ENV_BASE] = PathStr(ParentsAncestor(targets, cwd[p]))

\* C11 amended: without a .redo at or above the common ancestor of the
\* targets' parents and the working directory, init sets REDO_BASE to that
\* ancestor, which is the working directory or a directory above it; for
\* a/b/out and a/c/out from /proj it is /proj.
C11_FallbackBase ==
  \A p \in Procs : pc[p] \in { "start", "running" } =>
    \A targets \in ValidTargets :
      LET r == init(environ[p], p, cwd[p], targets, fs.canon, fs.unlocked,
                    fs.redo_dirs, NoFailure)
          anc == CommonAncestor(targets, cwd[p])
      IN  ( /\ ~NonEmpty(environ[p], ENV_BASE)
            /\ NonEmpty(r.env, ENV_BASE)
            /\ Prefixes(anc) \cap fs.redo_dirs = {} ) =>
            /\ r.env[ENV_BASE] = PathStr(anc)
            /\ IsPrefix(anc, cwd[p])
            /\ IsPrefix(anc, ParentsAncestor(targets, cwd[p]))
            /\ (targets = ExampleTargets /\ cwd[p] = Proj) =>
                 /\ r.env[ENV_BASE] = PathStr(Proj)
                 /\ ParentsAncestor(targets, cwd[p]) = ProjA

\* init run in /proj, where no directory has a .redo child, has set REDO_BASE
\* to /proj, as it does for a/b/out and a/c/out.
C11_Witness ==
  /\ ret[Root] = [op |-> "init", res |-> OkResult]
  /\ cwd[Root] = Proj /\ fs.redo_dirs = {}
  /\ environ[Root][ENV_BASE] = PathStr(Proj)
  /\ environ[Root][ENV_STARTDIR] = PathStr(Proj)
  /\ init(EmptyEnv, Root, Proj, ExampleTargets, fs.canon, fs.unlocked, {}, NoFailure).env[ENV_BASE]
       = environ[Root][ENV_BASE]

\* The bytes of the variable k in e, an unset variable read as empty.
Raw(e, k) == IF e[k] = Unset THEN << >> ELSE e[k]
OnlySpaces(s) == \A i \in 1..Len(s) : s[i] = " "

\* C12: where REDO is non-empty and REDO_TARGET valid, inherit returns a
\* session whose depth is REDO_DEPTH when REDO_DEPTH holds only spaces (or is
\* empty or unset), and fails when REDO_DEPTH holds anything else.
C12_DepthOnlySpaces ==
  [][\A p \in Procs :
       ( /\ Called(p, "inherit")
         /\ NonEmpty(environ[p], ENV_REDO)
         /\ RedoPathValid(Raw(environ[p], ENV_TARGET)) ) =>
         IF OnlySpaces(Raw(environ[p], ENV_DEPTH))
         THEN /\ ret'[p].res = OkResult
              /\ Newest(sessions'[p]).depth = Raw(environ[p], ENV_DEPTH)
         ELSE ret'[p].res # OkResult /\ sessions'[p] = << >>]_vars

\* inherit returned a session with an empty depth where REDO_DEPTH holds a
\* space and a byte that is not Unicode.
C12_Witness ==
  /\ ret[Root] = [op |-> "inherit", res |-> OkResult]
  /\ environ[Root][ENV_DEPTH] = << " ", BadByte >>
  /\ Len(sessions[Root]) = 1 /\ sessions[Root][1].depth = << >>

\* The tri-state a 64-bit integer stands for: 0 Off, 1 Auto, any other On.
TriState(n) == IF n = I64Zero THEN "Off" ELSE IF n = I64One THEN "Auto" ELSE "On"
Parses(e, k) == i64_from_str(Raw(e, k)) # ParseErr

\* C13: where REDO_LOG, REDO_COLOR or REDO_PRETTY parses as a 64-bit integer n,
\* the accessor of a session built from it returns Off when n = 0, Auto when
\* n = 1 and On for every other n.
C13_TriStateDecode ==
  \A p \in Procs : \A i \in 1..Len(sessions[p]) :
    /\ Parses(environ[p], ENV_LOG) =>
         log(sessions[p][i]) = TriState(i64_from_str(Raw(environ[p], ENV_LOG)))
    /\ Parses(environ[p], ENV_COLOR) =>
         color(sessions[p][i]) = TriState(i64_from_str(Raw(environ[p], ENV_COLOR)))
    /\ Parses(environ[p], ENV_PRETTY) =>
         pretty(sessions[p][i]) = TriState(i64_from_str(Raw(environ[p], ENV_PRETTY)))

\* A constructor built a session from REDO_LOG=4294967296, and log() is Off.
C13_Witness ==
  /\ ret[Root].op \in Ctors /\ ret[Root].res = OkResult
  /\ environ[Root][ENV_LOG] = << "4","2","9","4","9","6","7","2","9","6" >>
  /\ Len(sessions[Root]) = 1 /\ log(sessions[Root][1]) = "Off"

\* The value init_no_state gives REDO and REDO_BASE.
Placeholder == << "NOT_DEFINED" >>
\* The directories the resolver may give an init of the root.
RootBases ==
  { PathStr(ExpectedBase(ts, cwd[Root], fs.redo_dirs)) :
      ts \in { t \in OutsideTargets : \A i \in 1..Len(t) : HasParent(StrPath(t[i])) } }

HeldDirs == UNION { Owned(sessions[p]) : p \in Procs }
\* The name of the directory init made for p is among the bytes of PATH.
NamedInPath(e, p) == \E i \in 1..Len(e[ENV_PATH]) : e[ENV_PATH][i] = TmpNames[p]

\* C15: an ephemeral directory exists exactly while a session that holds it
\* is alive: none is left by an init that failed, by the drop of the last
\* session or clone that held it, or by a process that has ended.
C15_DirRemoved ==
  /\ tmpdirs = HeldDirs
  /\ \A p \in Procs :
       /\ (ret[p].op = "init" /\ ret[p].res # OkResult) => p \notin tmpdirs
       /\ pc[p] \in { "failed", "panicked", "exited" } => p \notin tmpdirs
       /\ sessions[p] = << >> => p \notin tmpdirs
       /\ p \in tmpdirs =>
            \E i \in 1..Len(sessions[p]) :
              sessions[p][i].redo_links_dir = p /\ sessions[p][i].is_toplevel

\* init made the directory and put it in PATH, then inherit failed on
\* REDO_DEPTH: the directory does not exist.
C15_Witness ==
  /\ ret[Root] = [op |-> "init", res |-> DepthError]
  /\ NamedInPath(environ[Root], Root)
  /\ tmpdirs = {} /\ sessions[Root] = << >>

\* The elements of q in order, each at its first occurrence only.
RECURSIVE FirstFrom(_, _)
FirstFrom(q, i) ==
  IF i > Len(q) THEN << >>
  ELSE (IF \E j \in 1..(i - 1) : q[j] = q[i] THEN << >> ELSE << q[i] >>)
       \o FirstFrom(q, i + 1)
\* Every directory followed by ":".
RECURSIVE ColonJoin(_)
ColonJoin(dirs) ==
  IF dirs = << >> THEN << >> ELSE PathStr(Head(dirs)) \o << ":" >> \o ColonJoin(Tail(dirs))
\* PATH as a tree-root init of p leaves it: the candidates, with or without the
\* ephemeral directory, then the old PATH.
Extended(p, old, with_dir) ==
  ColonJoin(FirstFrom(TryNames(fs.canon), 1) \o
            (IF with_dir THEN << TmpDirPath(p) >> ELSE << >>)) \o old

\* C16: a step changes PATH in a process only when it is an init of the root
\* that finds REDO unset or empty; that init leaves REDO non-empty and PATH the
\* candidates, each followed by ":", then the old PATH; a child starts with its
\* parent's PATH and a non-empty REDO, and REDO never becomes empty again.
C16_PathExtendedOnce ==
  [][\A p \in Procs :
       /\ (pc[p] # "absent" /\ environ'[p][ENV_PATH] # environ[p][ENV_PATH]) =>
            /\ Called(p, "init") /\ ~NonEmpty(environ[p], ENV_REDO) /\ parent[p] = 0
            /\ NonEmpty(environ'[p], ENV_REDO)
            /\ environ'[p][ENV_PATH] \in
                 { Extended(p, Raw(environ[p], ENV_PATH), d) : d \in BOOLEAN }
       /\ (Called(p, "init") /\ ~NonEmpty(environ[p], ENV_REDO) /\ ret'[p].res = OkResult) =>
            environ'[p][ENV_PATH] =
              Extended(p, Raw(environ[p], ENV_PATH), Newest(sessions'[p]).redo_links_dir = p)
       /\ (pc[p] = "absent" /\ pc'[p] # "absent") =>
            /\ environ'[p][ENV_PATH] = environ[parent'[p]][ENV_PATH]
            /\ NonEmpty(environ'[p], ENV_REDO)
       /\ (pc[p] # "absent" /\ NonEmpty(environ[p], ENV_REDO)) =>
            NonEmpty(environ'[p], ENV_REDO)]_vars

\* The root's init extended the PATH /bin; its child called init and has the
\* same PATH, and the root has called a mutator since.
C16_Witness ==
  \E c \in Procs :
    /\ parent[c] = Root /\ ret[c] = [op |-> "init", res |-> OkResult]
    /\ ret[Root].op \in { "mark_locks_broken", "fill_runid" }
    /\ environ[Root][ENV_PATH] = Extended(Root, << "/", "bin" >>, TRUE)
    /\ environ[c][ENV_PATH] = environ[Root][ENV_PATH]
    /\ Len(environ[Root][ENV_PATH]) > 2

\* The candidate directories of an executable path.
CandidatesOf(exe) ==
  { Parent(exe) \o << "..", "lib", "redo" >>, Parent(exe) \o << "..", "redo" >>, Parent(exe) }
CandidateDirs == CandidatesOf(ExePath) \cup CandidatesOf(fs.canon)

\* C17: a tree-root init that returns a session has made the ephemeral
\* directory, holds it and has put it in PATH after the candidates exactly when
\* no candidate directory has a redo-unlocked; otherwise the session holds none,
\* no directory is made and PATH has the candidates only.
C17_LinksDirIffNotUnlocked ==
  [][\A p \in Procs :
       (Called(p, "init") /\ ~NonEmpty(environ[p], ENV_REDO) /\ ret'[p].res = OkResult) =>
         IF CandidateDirs \cap fs.unlocked = {}
         THEN /\ Newest(sessions'[p]).redo_links_dir = p
              /\ p \in tmpdirs' /\ p \notin tmpdirs
              /\ environ'[p][ENV_PATH] = Extended(p, Raw(environ[p], ENV_PATH), TRUE)
         ELSE /\ Newest(sessions'[p]).redo_links_dir = NoDir
              /\ tmpdirs' = tmpdirs
              /\ environ'[p][ENV_PATH] = Extended(p, Raw(environ[p], ENV_PATH), FALSE)]_vars

\* A tree-root init returned a session without a directory where only the
\* ../lib/redo of the canonicalized executable has a redo-unlocked.
C17_Witness ==
  /\ ret[Root] = [op |-> "init", res |-> OkResult]
  /\ fs.canon # ExePath /\ fs.unlocked = { Parent(fs.canon) \o << "..", "lib", "redo" >> }
  /\ Len(sessions[Root]) = 1 /\ sessions[Root][1].is_toplevel
  /\ sessions[Root][1].redo_links_dir = NoDir
  /\ tmpdirs = {} /\ ~NamedInPath(environ[Root], Root)

\* The environment as mark_locks_broken leaves it.
Marked(e) == e[ENV_LOCKS_BROKEN] = << "1" >> /\ e[ENV_LOG] = << "0" >>

\* C18: mark_locks_broken leaves REDO_LOCKS_BROKEN=1 and REDO_LOG=0; no later
\* call in the process changes them, a child starts with them, every session a
\* constructor returns where they are set has locks_broken and log Off, and
\* no call empties REDO_LOCKS_BROKEN.
C18_LocksBrokenSticky ==
  [][\A p \in Procs :
       /\ ret'[p].op = "mark_locks_broken" =>
            /\ Marked(environ'[p])
            /\ sessions'[p] # << >> =>
                 sessions'[p][1].locks_broken /\ log(sessions'[p][1]) = "Off"
       /\ (pc[p] # "absent" /\ Marked(environ[p])) => Marked(environ'[p])
       /\ (pc[p] = "absent" /\ pc'[p] # "absent" /\ Marked(environ[parent'[p]])) =>
            Marked(environ'[p])
       /\ \A op \in Ctors :
            (Called(p, op) /\ Marked(environ[p]) /\ ret'[p].res = OkResult) =>
              /\ Newest(sessions'[p]).locks_broken
              /\ log(Newest(sessions'[p])) = "Off"
       /\ (pc[p] # "absent" /\ NonEmpty(environ[p], ENV_LOCKS_BROKEN)) =>
            NonEmpty(environ'[p], ENV_LOCKS_BROKEN)]_vars

\* The root called mark_locks_broken and then spawned a child, whose
\* constructor returned a session with locks_broken and log Off.
C18_Witness ==
  \E c \in Procs :
    /\ parent[c] = Root /\ ret[Root].op = "mark_locks_broken"
    /\ ret[c].op \in Ctors /\ ret[c].res = OkResult /\ Len(sessions[c]) = 1
    /\ sessions[c][1].locks_broken /\ log(sessions[c][1]) = "Off"
    /\ Marked(environ[c])

\* C19: an inherit that returns a session leaves every variable but
\* REDO_UNLOCKED and REDO_NO_OOB as it was; an inherit that fails, with the
\* usage error, InvalidTarget or the depth error, leaves the whole environment
\* as it was.
C19_InheritFrame ==
  [][\A p \in Procs :
       Called(p, "inherit") =>
         /\ ret'[p].res \in { OkResult, UsageError, InvalidTarget, DepthError }
         /\ \A k \in EnvNames \ { ENV_UNLOCKED, ENV_NO_OOB } :
              environ'[p][k] = environ[p][k]
         /\ ret'[p].res # OkResult => environ'[p] = environ[p]]_vars

\* inherit failed on REDO_DEPTH where REDO_UNLOCKED is 1, and it still is.
C19_Witness ==
  /\ ret[Root] = [op |-> "inherit", res |-> DepthError]
  /\ environ[Root][ENV_DEPTH] = << " ", "x" >>
  /\ environ[Root][ENV_UNLOCKED] = << "1" >>
  /\ NonEmpty(environ[Root], ENV_REDO)

====
